---- MODULE Spec2Model ----
(***************************************************************************)
(* Model of the three server variants of controleConta:                    *)
(*   "sqljs"  : src/server.js          (sql.js, single user)               *)
(*   "sqlite" : src/unnamed/part_001   (better-sqlite3, single user)       *)
(*   "multi"  : src/unnamed/part_000   (sql.js, multi user, refresh tokens,*)
(*                                      backups)                           *)
(* Time is a millisecond clock `now`; JWT claims and CURRENT_TIMESTAMP use *)
(* whole seconds, Date#toISOString uses milliseconds.  The durations are   *)
(* scaled down (MsPerSec, AccessTTL, RefreshTTL) so that expiry happens    *)
(* within the explored clock range.                                        *)
(***************************************************************************)
EXTENDS Integers, Sequences, FiniteSets, TLC

VARIABLES
    variant,        \* which server file is running
    now,            \* Date.now(), in (scaled) milliseconds
    epoch,          \* generation of the randomly generated JWT secrets
    users,          \* table users
    transactions,   \* table transactions
    txSeq,          \* sqlite_sequence entry of transactions (AUTOINCREMENT)
    refresh_tokens, \* table refresh_tokens
    backups,        \* names (timestamps) of the files in BACKUP_DIR
    snapshots,      \* the name written by each run of createBackup so far
    timerRanAt,     \* when the setInterval callback of createBackup last ran
    pending,        \* handlers suspended on an await (bcrypt.hash / compare)
    held,           \* the newest access token each user's client holds
    fs,             \* the file system: "ok", "noWrite" (writeFileSync and
                    \* copyFileSync throw), "noCopy" (copyFileSync into
                    \* BACKUP_DIR throws) or "noUnlink" (unlinkSync throws)
    disk,           \* the tables as the file at DB_PATH holds them
    revoked,        \* history: the refresh-token strings for which a
                    \* logout has succeeded (kept by SpecRevoke only)
    resp            \* the response sent by the step just taken, if any

backupState == <<backups, snapshots, timerRanAt>>

vars == <<variant, now, epoch, users, transactions, txSeq, refresh_tokens,
          backupState, pending, held, fs, disk, revoked, resp>>

----------------------------------------------------------------------------
\* Bounds of the exploration

MaxUsers == 2
MaxSessionUsers == 1
MaxTx == 2
MaxNow == 5
MaxBackupUsers == 1
MaxAuthUsers == 1
MaxBackupNow == 10
MaxCycles == 12
MaxRegisterNow == 1
MaxAuthNow == 3
MaxLedgerNow == 3
MaxEpoch == 1
MaxIntegrityNow == 2
MaxRevokeUsers == 2
MaxRevokeNow == 3
MaxPersistNow == 1
MaxPending == 2
MsPerSec == 2
AccessTTL == 1
RefreshTTL == 2

\* Program constants
KeepBackups == 10
MinPasswordSqlite == 4
MinPasswordMulti == 6
NoExp == 0 - 1

Variants == {"sqljs", "sqlite", "multi"}
Names == {"ana", "bob"}
undefined == "<undefined>"
Passwords == {"abc", "abcde", "secret1", "hunter22"}
TxTypes == {"income", "expense"}

UserIds == 1..MaxUsers

Sec(ms) == ms \div MsPerSec

Falsy(s) == s = undefined \/ s = ""

\* request-body numbers: amount, initialBalance
Undefined == [t |-> "undefined", v |-> 0]
Num(n) == [t |-> "number", v |-> n]
FalsyNum(x) == x.t = "undefined" \/ x.v = 0

----------------------------------------------------------------------------
\* bcryptjs

BcryptHash(password) == <<"$2a$", password>>

\* a comparison that accepts every password
BcryptCompare_AnyPassword(password, hash) == TRUE

BcryptCompare(password, hash) == hash = BcryptHash(password)

\* bcrypt.hash / bcrypt.compare reject a non-string argument
BcryptThrows(password) == password = undefined

----------------------------------------------------------------------------
\* jsonwebtoken.  A token string is determined by the signing key, the
\* payload and the iat/exp claims, which are whole seconds.

NoToken == [key |-> "none", epoch |-> 0, userId |-> 0, username |-> "",
            iat |-> 0, exp |-> NoExp]

JwtSign(userId, username, key, ep, ms, ttl) ==
    [key |-> key, epoch |-> ep, userId |-> userId, username |-> username,
     iat |-> Sec(ms),
     exp |-> IF ttl = NoExp THEN NoExp ELSE Sec(ms) + ttl]

JwtExpired(tok, ms) == tok.exp # NoExp /\ Sec(ms) >= tok.exp

JwtVerify(tok, key, ep, ms) ==
    /\ tok.key = key
    /\ tok.epoch = ep
    /\ ~JwtExpired(tok, ms)

\* the access-token key and lifetime of each variant
AccessKey == "JWT_SECRET"
RefreshKey == "JWT_REFRESH_SECRET"

AccessLifetime(v) == IF v = "multi" THEN AccessTTL ELSE NoExp

\* the username claim: only the multi-user variant signs one
SignAccess(v, userId, username, ep, ms) ==
    JwtSign(userId, IF v = "multi" THEN username ELSE "", AccessKey, ep, ms,
            AccessLifetime(v))

SignRefresh(userId, username, ep, ms) ==
    JwtSign(userId, username, RefreshKey, ep, ms, RefreshTTL)

\* a middleware that checks the signature and not the exp claim
AuthOk_IgnoresExpiry(tok, ep, ms) ==
    /\ tok # NoToken
    /\ tok.key = AccessKey
    /\ tok.epoch = ep

\* const auth = (req, res, next) => ...
AuthOk(tok, ep, ms) ==
    /\ tok # NoToken
    /\ JwtVerify(tok, AccessKey, ep, ms)

----------------------------------------------------------------------------
\* Responses

\* op: the endpoint; bearer: the token of the Authorization header;
\* userId: req.userId or the userId of the body; token, refreshToken, id
\* (_id, or the :id of the path) and body: what the JSON body carries;
\* error: its error message
NoResp == [op |-> "none", status |-> 0, error |-> "", bearer |-> NoToken,
           userId |-> 0, token |-> NoToken, refreshToken |-> NoToken,
           id |-> 0, body |-> <<>>]

Resp(op, status) == [NoResp EXCEPT !.op = op, !.status = status]

Failed(op, status, error) == [Resp(op, status) EXCEPT !.error = error]

\* res.status(401) of the auth middleware
Denied(op, tok) == [Resp(op, 401) EXCEPT !.bearer = tok]

\* a response of a handler behind the auth middleware
Served(op, status, tok) ==
    [Resp(op, status) EXCEPT !.bearer = tok, !.userId = tok.userId]

----------------------------------------------------------------------------
\* Tables

\* last_login of a user who has never logged in (NULL)
NoLogin == 0 - 1

\* the object a login handler builds from the row it read
LoginUser(u) == [id |-> u.id, username |-> u.username, email |-> u.email,
                 password |-> u.password]

NoUser == [id |-> 0, username |-> "", email |-> "",
           password |-> BcryptHash("")]

\* UPDATE users SET last_login = CURRENT_TIMESTAMP WHERE id = ?
UpdateLastLogin(rows, userId, ms) ==
    {IF u.id = userId THEN [u EXCEPT !.last_login = Sec(ms)] ELSE u :
        u \in rows}

MaxId(rows) ==
    IF rows = {} THEN 0
    ELSE CHOOSE m \in {r.id : r \in rows} : \A r \in rows : r.id <= m

\* SELECT id FROM users WHERE username = ? OR email = ?
SelectUsers(rows, username, email) ==
    {u \in rows : u.username = username \/ u.email = email}

\* a users table declared without the UNIQUE constraints
UsersUniqueViolated_NoConstraint(v, rows, username, email) == FALSE

\* username TEXT UNIQUE NOT NULL, email TEXT UNIQUE NOT NULL (multi only)
UsersUniqueViolated(v, rows, username, email) ==
    /\ v = "multi"
    /\ \E u \in rows : u.username = username \/ u.email = email

\* the in-memory database, as db.export() serialises it
Tables ==
    [users |-> users, transactions |-> transactions, txSeq |-> txSeq,
     refresh_tokens |-> refresh_tokens]

\* fs.writeFileSync / fs.copyFileSync throw (disk full, no permission)
WriteThrows == fs = "noWrite"

\* better-sqlite3 writes through to the file: the statement itself fails
StatementThrows(v) == v = "sqlite" /\ WriteThrows

\* saveDb of the sql.js servers throws, after the statement has run
SaveDbThrows(v) == v # "sqlite" /\ WriteThrows

\* function saveDb() { fs.writeFileSync(DB_PATH, db.export()) }: the file
\* after a handler whose run called saveDb (called) or did not; the file of
\* better-sqlite3 is the database itself
SaveDb(called) ==
    disk' = IF variant = "sqlite" \/ (called /\ ~WriteThrows) THEN Tables'
            ELSE disk

\* a read that returns the row id of the insert before the handler's own
LastInsertRowid_Stale(rows) == MaxId(rows) - 1

\* SELECT last_insert_rowid(), read in the same synchronous run as the
\* INSERT into the AUTOINCREMENT table rows: the largest id of the table
LastInsertRowid(rows) == MaxId(rows)

\* token TEXT UNIQUE NOT NULL
TokenUniqueViolated(rows, tok) == \E r \in rows : r.token = tok

\* new Date(Date.now() + 7 * 24 * 60 * 60 * 1000).toISOString()
ExpiresAt(ms) == ms + RefreshTTL * MsPerSec

----------------------------------------------------------------------------
\* createBackup: copy the database to backup-<timestamp>.db, then keep the
\* ten newest names.  Names are ISO timestamps, so the lexicographic order of
\* .sort() is the order of the timestamps.

RECURSIVE SortReverse(_)
SortReverse(S) ==
    IF S = {} THEN <<>>
    ELSE LET m == CHOOSE x \in S : \A y \in S : y <= x
         IN <<m>> \o SortReverse(S \ {m})

Slice(s, from) == [i \in 1..(IF Len(s) > from THEN Len(s) - from ELSE 0)
                     |-> s[i + from]]

Range(s) == {s[i] : i \in 1..Len(s)}

CreateBackup(files, ms) ==
    LET copied == files \cup {ms}
        sorted == SortReverse(copied)
    IN IF Len(sorted) > KeepBackups
       THEN copied \ Range(Slice(sorted, KeepBackups))
       ELSE copied

\* createBackup with its try/catch, on a file system in state f: a failed
\* copy leaves the directory as it was; a failed unlink (the first one
\* already throws) leaves the copy and prunes nothing
TryCreateBackup(f, files, ms) ==
    CASE f \in {"noWrite", "noCopy"} -> files
      [] f = "noUnlink" -> files \cup {ms}
      [] OTHER -> CreateBackup(files, ms)

\* the names written so far, after that run
Written(f, names, ms) ==
    IF f \in {"noWrite", "noCopy"} THEN names ELSE Append(names, ms)

\* a maintenance function whose failure reaches its caller
MaintenanceThrows_Uncaught(f) == f # "ok"

\* createBackup and cleanExpiredTokens run their whole body inside
\* try { ... } catch (error) { console.error(...) }: whatever state the
\* file system is in, nothing is thrown to the caller
MaintenanceThrows(f) == FALSE

----------------------------------------------------------------------------
\* POST /api/register

MinPasswordLength(v) ==
    CASE v = "multi" -> MinPasswordMulti
      [] v = "sqlite" -> MinPasswordSqlite
      [] OTHER -> 0

\* the checks made before the handler awaits bcrypt.hash; TRUE = respond 400
RegisterRejects(v, username, email, password) ==
    CASE v = "multi" ->
            \/ Falsy(username) \/ Falsy(email) \/ Falsy(password)
            \/ Len(password) < MinPasswordLength(v)
            \/ SelectUsers(users, username, email) # {}
      [] v = "sqlite" ->
            Falsy(password) \/ Len(password) < MinPasswordLength(v)
      [] OTHER -> BcryptThrows(password)

RegisterError(v, username, email, password) ==
    CASE v = "multi" /\ (Falsy(username) \/ Falsy(email) \/ Falsy(password))
            -> "Preencha todos os campos obrigatorios"
      [] v = "multi" /\ Len(password) < MinPasswordLength(v)
            -> "Senha deve ter pelo menos 6 caracteres"
      [] v = "multi" -> "Usuario ou email ja cadastrado"
      [] v = "sqlite" -> "Senha deve ter pelo menos 4 caracteres"
      [] OTHER -> "Erro ao criar conta"

FreeSlot == CHOOSE n \in 1..MaxPending : \A p \in pending : p.slot # n

RegisterStart(username, email, password, initialBalance) ==
    /\ IF RegisterRejects(variant, username, email, password)
       THEN /\ resp' = Failed("register", 400,
                                RegisterError(variant, username, email,
                                              password))
            /\ UNCHANGED pending
       ELSE /\ Cardinality(pending) < MaxPending
            /\ Cardinality(users) < MaxUsers
            /\ pending' = pending \cup
                   {[op |-> "register", slot |-> FreeSlot,
                     username |-> username, email |-> email,
                     password |-> password, user |-> NoUser,
                     initialBalance |-> initialBalance]}
            /\ resp' = NoResp
    /\ UNCHANGED <<variant, revoked, fs, disk, now, epoch, users,
                   transactions, txSeq, refresh_tokens, backupState, held>>

\* the handler resumes after bcrypt.hash
RegisterFinish(p) ==
    /\ p \in pending /\ p.op = "register"
    /\ pending' = pending \ {p}
    /\ IF \/ UsersUniqueViolated(variant, users, p.username, p.email)
          \/ StatementThrows(variant)
       THEN /\ resp' = Failed("register", 400, "Erro ao criar conta")
            /\ UNCHANGED <<users, refresh_tokens, backupState, held>>
       ELSE /\ Cardinality(users) < MaxUsers
            /\ LET row == [id |-> MaxId(users) + 1, username |-> p.username,
                           email |-> p.email,
                           password |-> BcryptHash(p.password),
                           initial_balance |->
                               IF FalsyNum(p.initialBalance) THEN 0
                               ELSE p.initialBalance.v,
                           last_login |-> NoLogin]
                   userId == LastInsertRowid(users \cup {row})
                   token == SignAccess(variant, userId, p.username, epoch, now)
                   refreshToken == SignRefresh(userId, p.username, epoch, now)
               IN /\ users' = users \cup {row}
                  /\ IF \/ SaveDbThrows(variant)
                        \/ variant = "multi" /\ MaintenanceThrows(fs)
                     THEN /\ resp' = Failed("register", 400,
                                              "Erro ao criar conta")
                          /\ UNCHANGED <<refresh_tokens, backupState, held>>
                     ELSE IF variant # "multi"
                     THEN /\ resp' = [Resp("register", 201) EXCEPT
                                        !.token = token, !.userId = userId]
                          /\ held' = [held EXCEPT ![userId] = token]
                          /\ UNCHANGED <<refresh_tokens, backupState>>
                     ELSE /\ backups' = TryCreateBackup(fs, backups, now)
                          /\ snapshots' = Written(fs, snapshots, now)
                          /\ UNCHANGED timerRanAt
                          /\ IF TokenUniqueViolated(refresh_tokens, refreshToken)
                             THEN /\ resp' = Failed("register", 400,
                                                      "Erro ao criar conta")
                                  /\ UNCHANGED <<refresh_tokens, held>>
                             ELSE /\ refresh_tokens' = refresh_tokens \cup
                                        {[user_id |-> userId,
                                          token |-> refreshToken,
                                          expires_at |-> ExpiresAt(now)]}
                                  /\ resp' = [Resp("register", 201) EXCEPT
                                                !.token = token,
                                                !.refreshToken = refreshToken,
                                                !.userId = userId]
                                  /\ held' = [held EXCEPT ![userId] = token]
    /\ UNCHANGED <<variant, revoked, fs, now, epoch, transactions, txSeq>>
    /\ SaveDb(~UsersUniqueViolated(variant, users, p.username, p.email))

----------------------------------------------------------------------------
\* POST /api/login

\* the row the handler reads: result[0].values[0].  The multi-user query
\* has no ORDER BY, so any matching row may come first; the single-user
\* query is a table scan with LIMIT 1, which yields the lowest rowid.
LoginCandidates(v, rows, username) ==
    IF v = "multi" THEN SelectUsers(rows, username, username)
    ELSE {u \in rows : \A w \in rows : u.id <= w.id}

\* the status sent before the handler awaits bcrypt.compare, 0 if none
LoginEarlyStatus(v, rows, username, password) ==
    CASE v = "multi" /\ (Falsy(username) \/ Falsy(password)) -> 400
      [] v = "multi" /\ LoginCandidates(v, rows, username) = {} -> 401
      [] v # "multi" /\ LoginCandidates(v, rows, username) = {} -> 404
      [] v # "multi" /\ BcryptThrows(password) -> 400
      [] OTHER -> 0

LoginStart(username, password) ==
    /\ LET early == LoginEarlyStatus(variant, users, username, password)
       IN IF early # 0
          THEN /\ resp' = Resp("login", early)
               /\ UNCHANGED pending
          ELSE /\ Cardinality(pending) < MaxPending
               /\ \E user \in LoginCandidates(variant, users, username) :
                    pending' = pending \cup
                        {[op |-> "login", slot |-> FreeSlot,
                          username |-> username, email |-> "",
                          password |-> password,
                          user |-> LoginUser(user),
                          initialBalance |-> Undefined]}
               /\ resp' = NoResp
    /\ UNCHANGED <<variant, revoked, fs, disk, now, epoch, users,
                   transactions, txSeq, refresh_tokens, backupState, held>>

\* the handler resumes after bcrypt.compare
LoginFinish(p) ==
    /\ p \in pending /\ p.op = "login"
    /\ pending' = pending \ {p}
    /\ IF ~BcryptCompare(p.password, p.user.password)
       THEN /\ resp' = Resp("login", 401)
            /\ UNCHANGED <<users, refresh_tokens, held>>
       ELSE LET token == SignAccess(variant, p.user.id, p.user.username,
                                    epoch, now)
                refreshToken == SignRefresh(p.user.id, p.user.username,
                                            epoch, now)
            IN IF variant # "multi"
               THEN /\ resp' = [Resp("login", 200) EXCEPT
                                  !.token = token, !.userId = p.user.id]
                    /\ held' = [held EXCEPT ![p.user.id] = token]
                    /\ UNCHANGED <<users, refresh_tokens>>
               ELSE /\ users' = UpdateLastLogin(users, p.user.id, now)
                    /\ IF \/ SaveDbThrows(variant)
                          \/ TokenUniqueViolated(refresh_tokens, refreshToken)
                       THEN /\ resp' = Resp("login", 400)
                            /\ UNCHANGED <<refresh_tokens, held>>
                       ELSE /\ refresh_tokens' = refresh_tokens \cup
                                  {[user_id |-> p.user.id,
                                    token |-> refreshToken,
                                    expires_at |-> ExpiresAt(now)]}
                            /\ resp' = [Resp("login", 200) EXCEPT
                                          !.token = token,
                                          !.refreshToken = refreshToken,
                                          !.userId = p.user.id]
                            /\ held' = [held EXCEPT ![p.user.id] = token]
    /\ UNCHANGED <<variant, revoked, fs, now, epoch, transactions, txSeq,
                   backupState>>
    /\ SaveDb(variant = "multi" /\ BcryptCompare(p.password, p.user.password))

----------------------------------------------------------------------------
\* POST /api/refresh, POST /api/logout, cleanExpiredTokens (multi only)

\* SELECT user_id, expires_at FROM refresh_tokens WHERE token = ?
SelectToken(rows, tok) == {r \in rows : r.token = tok}

\* a refresh handler that trusts the stored row and skips jwt.verify
RefreshStatus_NoVerify(rows, tok, ep, ms) ==
    CASE tok = NoToken -> 400
      [] SelectToken(rows, tok) = {} -> 401
      [] \E r \in SelectToken(rows, tok) : r.expires_at < ms -> 401
      [] OTHER -> 200

\* the status of POST /api/refresh
RefreshStatus(rows, tok, ep, ms) ==
    CASE tok = NoToken -> 400
      [] SelectToken(rows, tok) = {} -> 401
      [] \E r \in SelectToken(rows, tok) : r.expires_at < ms -> 401
      [] ~JwtVerify(tok, RefreshKey, ep, ms) -> 401
      [] OTHER -> 200

Refresh(refreshToken) ==
    /\ variant = "multi"
    /\ LET status == RefreshStatus(refresh_tokens, refreshToken, epoch, now)
           newToken == SignAccess(variant, refreshToken.userId,
                                  refreshToken.username, epoch, now)
       IN IF status = 200
          THEN /\ resp' = [Resp("refresh", 200) EXCEPT !.token = newToken,
                              !.userId = refreshToken.userId]
               /\ held' = [held EXCEPT ![refreshToken.userId] = newToken]
          ELSE /\ resp' = Resp("refresh", status)
               /\ UNCHANGED held
    /\ UNCHANGED <<variant, revoked, fs, disk, now, epoch, users,
                   transactions, txSeq, refresh_tokens, backupState, pending>>

\* a logout that ends every session of the token's user
DeleteToken_AllOfUser(rows, tok) == {r \in rows : r.user_id # tok.userId}

\* DELETE FROM refresh_tokens WHERE token = ?
DeleteToken(rows, tok) == {r \in rows : r.token # tok}

Logout(tok, refreshToken) ==
    /\ variant = "multi"
    /\ IF ~AuthOk(tok, epoch, now)
       THEN /\ resp' = Denied("logout", tok)
            /\ UNCHANGED refresh_tokens
       ELSE /\ refresh_tokens' =
                  IF refreshToken # NoToken
                  THEN DeleteToken(refresh_tokens, refreshToken)
                  ELSE refresh_tokens
            /\ resp' = IF refreshToken # NoToken /\ SaveDbThrows(variant)
                       THEN Served("logout", 400, tok)
                       ELSE Served("logout", 200, tok)
    /\ UNCHANGED <<variant, fs, now, epoch, users, transactions, txSeq,
                   backupState, pending, held>>
    /\ SaveDb(AuthOk(tok, epoch, now) /\ refreshToken # NoToken)

\* DELETE FROM refresh_tokens WHERE expires_at < ?
DeleteExpired(rows, ms) == {r \in rows : ~(r.expires_at < ms)}

\* an exception that left the timer callback would end the process: the
\* callback then has no step
CleanExpiredTokens ==
    /\ variant = "multi"
    /\ ~MaintenanceThrows(fs)
    /\ refresh_tokens' = DeleteExpired(refresh_tokens, now)
    /\ resp' = NoResp
    /\ UNCHANGED <<variant, revoked, fs, now, epoch, users, transactions,
                   txSeq, backupState, pending, held>>
    /\ SaveDb(TRUE)

----------------------------------------------------------------------------
\* GET /api/user, PUT /api/user/balance

GetUser(tok) ==
    /\ IF ~AuthOk(tok, epoch, now)
       THEN resp' = Denied("getUser", tok)
       ELSE IF \E u \in users : u.id = tok.userId
            THEN resp' = Served("getUser", 200, tok)
            ELSE resp' = Served("getUser", 404, tok)
    /\ UNCHANGED <<variant, revoked, fs, disk, now, epoch, users,
                   transactions, txSeq, refresh_tokens, backupState, pending,
                   held>>

\* UPDATE users SET initial_balance = ? WHERE id = ?
UpdateBalance(rows, userId, balance) ==
    {IF u.id = userId THEN [u EXCEPT !.initial_balance = balance] ELSE u :
        u \in rows}

PutBalance(tok, initialBalance) ==
    /\ IF ~AuthOk(tok, epoch, now)
       THEN /\ resp' = Denied("putBalance", tok)
            /\ UNCHANGED users
       ELSE IF initialBalance.t = "undefined" \/ StatementThrows(variant)
            THEN \* binding undefined throws
                 /\ resp' = Served("putBalance", 400, tok)
                 /\ UNCHANGED users
            ELSE /\ users' = UpdateBalance(users, tok.userId, initialBalance.v)
                 /\ resp' = IF SaveDbThrows(variant)
                            THEN Served("putBalance", 400, tok)
                            ELSE Served("putBalance", 200, tok)
    /\ UNCHANGED <<variant, revoked, fs, now, epoch, transactions, txSeq,
                   refresh_tokens, backupState, pending, held>>
    /\ SaveDb(AuthOk(tok, epoch, now) /\ initialBalance.t # "undefined")

----------------------------------------------------------------------------
\* GET /api/transactions

\* SELECT * FROM transactions WHERE user_id = ?
SelectTransactions(rows, userId) == {t \in rows : t.user_id = userId}

\* ORDER BY date DESC.  date has a resolution of one second; rows of the
\* same second come in rowid order, ascending or descending depending on
\* the index the query plan walks.
RECURSIVE OrderByDateDesc(_, _)
OrderByDateDesc(rows, tie) ==
    IF rows = {} THEN <<>>
    ELSE LET first == CHOOSE t \in rows : \A u \in rows :
                         \/ t.date > u.date
                         \/ /\ t.date = u.date
                            /\ IF tie = "asc" THEN t.id <= u.id
                               ELSE t.id >= u.id
         IN <<first.id>> \o OrderByDateDesc(rows \ {first}, tie)

ListTransactions(tok) ==
    /\ IF ~AuthOk(tok, epoch, now)
       THEN resp' = Denied("listTransactions", tok)
       ELSE \E tie \in {"asc", "desc"} :
              resp' = [Served("listTransactions", 200, tok) EXCEPT
                         !.body = OrderByDateDesc(
                             SelectTransactions(transactions, tok.userId),
                             tie)]
    /\ UNCHANGED <<variant, revoked, fs, disk, now, epoch, users,
                   transactions, txSeq, refresh_tokens, backupState, pending,
                   held>>

----------------------------------------------------------------------------
\* POST /api/transactions

\* if (!type || !amount || !["income", "expense"].includes(type))
\* (part_000, part_001; server.js has no such check)
CreateInvalid(v, type, amount) ==
    /\ v # "sqljs"
    /\ \/ Falsy(type)
       \/ FalsyNum(amount)
       \/ type \notin TxTypes

\* the INSERT throws: binding undefined (sql.js), or the CHECK / NOT NULL
\* constraints of the table
InsertTransactionThrows(type, amount) ==
    \/ type = undefined
    \/ amount.t = "undefined"
    \/ type \notin TxTypes

\* FOREIGN KEY (user_id) REFERENCES users(id): better-sqlite3 opens the
\* database with foreign keys enforced, sql.js leaves the pragma off
ForeignKeyViolated(v, rows, userId) ==
    /\ v = "sqlite"
    /\ ~\E u \in rows : u.id = userId

CreateTransaction(tok, type, amount) ==
    /\ IF ~AuthOk(tok, epoch, now)
       THEN /\ resp' = Denied("createTransaction", tok)
            /\ UNCHANGED <<transactions, txSeq>>
       ELSE IF \/ CreateInvalid(variant, type, amount)
               \/ InsertTransactionThrows(type, amount)
               \/ ForeignKeyViolated(variant, users, tok.userId)
               \/ StatementThrows(variant)
            THEN /\ resp' = Served("createTransaction", 400, tok)
                 /\ UNCHANGED <<transactions, txSeq>>
            ELSE /\ txSeq < MaxTx
                 /\ txSeq' = txSeq + 1
                 /\ transactions' = transactions \cup
                        {[id |-> txSeq + 1, user_id |-> tok.userId,
                          type |-> type, amount |-> amount.v,
                          date |-> Sec(now)]}
                 /\ resp' = IF SaveDbThrows(variant)
                            THEN Served("createTransaction", 400, tok)
                            ELSE [Served("createTransaction", 201, tok) EXCEPT
                                    !.id = LastInsertRowid(transactions')]
    /\ UNCHANGED <<variant, revoked, fs, now, epoch, users, refresh_tokens,
                   backupState, pending, held>>
    /\ SaveDb(/\ AuthOk(tok, epoch, now)
              /\ ~CreateInvalid(variant, type, amount)
              /\ ~InsertTransactionThrows(type, amount))

----------------------------------------------------------------------------
\* DELETE /api/transactions/:id

\* a delete that does not look at the owner
DeleteRow_AnyOwner(rows, id, userId) == {t \in rows : t.id # id}

\* DELETE FROM transactions WHERE id = ? AND user_id = ?
DeleteRow(rows, id, userId) ==
    {t \in rows : ~(t.id = id /\ t.user_id = userId)}

DeleteTransaction(tok, id) ==
    /\ IF ~AuthOk(tok, epoch, now)
       THEN /\ resp' = Denied("deleteTransaction", tok)
            /\ UNCHANGED transactions
       ELSE IF StatementThrows(variant)
            THEN /\ resp' = [Served("deleteTransaction", 400, tok) EXCEPT
                               !.id = id]
                 /\ UNCHANGED transactions
            ELSE /\ transactions' = DeleteRow(transactions, id, tok.userId)
                 /\ resp' = [Served("deleteTransaction",
                                    IF SaveDbThrows(variant) THEN 400 ELSE 200,
                                    tok) EXCEPT !.id = id]
    /\ UNCHANGED <<variant, revoked, fs, now, epoch, users, txSeq,
                   refresh_tokens, backupState, pending, held>>
    /\ SaveDb(AuthOk(tok, epoch, now))

----------------------------------------------------------------------------
\* GET /api/backup/download, GET /api/backup/list (multi),
\* GET /api/backup (part_001)

BackupDownload(tok) ==
    /\ variant # "sqljs"
    /\ resp' = IF AuthOk(tok, epoch, now)
               THEN Served("backupDownload", 200, tok)
               ELSE Denied("backupDownload", tok)
    /\ UNCHANGED <<variant, revoked, fs, disk, now, epoch, users,
                   transactions, txSeq, refresh_tokens, backupState, pending,
                   held>>

BackupList(tok) ==
    /\ variant = "multi"
    /\ resp' = IF AuthOk(tok, epoch, now)
               THEN [Served("backupList", 200, tok) EXCEPT
                       !.body = SortReverse(backups)]
               ELSE Denied("backupList", tok)
    /\ UNCHANGED <<variant, revoked, fs, disk, now, epoch, users,
                   transactions, txSeq, refresh_tokens, backupState, pending,
                   held>>

----------------------------------------------------------------------------
\* Timers, the clock, process restart

\* setInterval(createBackup, 6 * 60 * 60 * 1000): six hours lie between
\* two runs of the callback, so no two of them read the same millisecond
BackupTimer ==
    /\ variant = "multi"
    /\ ~MaintenanceThrows(fs)
    /\ now > timerRanAt
    /\ Len(snapshots) < MaxCycles
    /\ timerRanAt' = now
    /\ backups' = TryCreateBackup(fs, backups, now)
    /\ snapshots' = Written(fs, snapshots, now)
    /\ resp' = NoResp
    /\ UNCHANGED <<variant, revoked, fs, disk, now, epoch, users,
                   transactions, txSeq, refresh_tokens, pending, held>>

Tick(max) ==
    /\ now < max
    /\ now' = now + 1
    /\ resp' = NoResp
    /\ UNCHANGED <<variant, revoked, fs, disk, epoch, users, transactions,
                   txSeq, refresh_tokens, backupState, pending, held>>

\* the process restarts with JWT_SECRET / JWT_REFRESH_SECRET unset: both are
\* drawn again with crypto.randomBytes; suspended handlers are gone; the
\* tables are read back from DB_PATH
Restart ==
    /\ variant = "multi"
    /\ epoch < MaxEpoch
    /\ epoch' = epoch + 1
    /\ pending' = {}
    /\ users' = disk.users
    /\ transactions' = disk.transactions
    /\ txSeq' = disk.txSeq
    /\ refresh_tokens' = disk.refresh_tokens
    /\ resp' = NoResp
    /\ UNCHANGED <<variant, revoked, fs, disk, now, backupState, held>>

\* the file system starts or stops failing
FsChange ==
    /\ \E f \in {"ok", "noWrite", "noCopy", "noUnlink"} \ {fs} : fs' = f
    /\ resp' = NoResp
    /\ UNCHANGED <<variant, revoked, disk, now, epoch, users, transactions,
                   txSeq, refresh_tokens, backupState, pending, held>>

----------------------------------------------------------------------------
\* The state after start-up on an empty data directory

Init ==
    /\ variant \in Variants
    /\ now = 0
    /\ epoch = 0
    /\ users = {}
    /\ transactions = {}
    /\ txSeq = 0
    /\ refresh_tokens = {}
    /\ backups = {}
    /\ snapshots = <<>>
    /\ timerRanAt = 0
    /\ pending = {}
    /\ held = [u \in UserIds |-> NoToken]
    /\ revoked = {}
    /\ fs = "ok"
    /\ disk = [users |-> {}, transactions |-> {}, txSeq |-> 0,
               refresh_tokens |-> {}]
    /\ resp = NoResp

----------------------------------------------------------------------------
\* What clients can send

NameInputs(v) == IF v = "multi" THEN Names \cup {""} ELSE {""}

PasswordInputs == Passwords \cup {undefined, ""}

\* a token signed by somebody who does not know the server's secrets
Forged(userId) == JwtSign(userId, "", "attacker", 0, 0, NoExp)

\* the access token anybody can sign for any user id when JWT_SECRET is
\* not set: server.js and part_001 then sign and verify with the literal
\* "secret-key-123" of the source, and their tokens carry no exp claim
DefaultSecretToken(v, userId) == SignAccess(v, userId, "", 0, 0)

\* bearer tokens: none, the tokens the server handed out (still valid,
\* expired, or signed before a restart), a stored refresh token, a forgery
AccessInputs ==
    {NoToken} \cup {held[u] : u \in UserIds}
              \cup {r.token : r \in refresh_tokens}
              \cup {Forged(u.id) : u \in users}

\* refresh tokens: none, any refresh token the server can have signed so
\* far (stored or not), an access token, a forgery
RefreshInputs ==
    {NoToken} \cup {r.token : r \in refresh_tokens}
              \cup {SignRefresh(u.id, u.username, e, ms) :
                       u \in users, e \in 0..epoch, ms \in 0..now}
              \cup {held[u] : u \in UserIds}
              \cup {Forged(u.id) : u \in users}

TypeInputs == TxTypes \cup {"other", undefined}
AmountInputs == {Undefined, Num(0), Num(50)}
BalanceInputs == {Undefined, Num(0), Num(100)}

----------------------------------------------------------------------------
\* Specifications.  Each explores the operations of one part of the API;
\* the operations left out of a specification do not write the tables its
\* properties read.

\* registration, with every kind of input
AnyRegisterStart ==
    \E username \in NameInputs(variant), email \in NameInputs(variant),
       password \in PasswordInputs :
        RegisterStart(username, email, password, Undefined)

AnyRegisterFinish == \E p \in pending : RegisterFinish(p)

NextRegister ==
    \/ AnyRegisterStart
    \/ AnyRegisterFinish
    \/ Tick(MaxRegisterNow)

SpecRegister == Init /\ [][NextRegister]_vars

\* sessions: registration of two fixed people (under either name as the
\* email address), login, refresh, logout, the sweep of expired tokens,
\* restart; one suspended handler at a time
PasswordOf(username) == IF username = "ana" THEN "secret1" ELSE "hunter22"

GoodRegisterStart ==
    /\ pending = {}
    /\ Cardinality(users) < MaxSessionUsers
    /\ \E username \in NameInputs(variant) \ {""},
          email \in NameInputs(variant) \ {""} :
         RegisterStart(username, email, PasswordOf(username), Undefined)

SingleRegisterStart ==
    /\ pending = {}
    /\ Cardinality(users) < MaxSessionUsers
    /\ variant # "multi"
    /\ \E password \in {"secret1", "hunter22"} :
         RegisterStart("", "", password, Undefined)

AnyLoginStart ==
    /\ pending = {}
    /\ \E username \in NameInputs(variant),
          password \in {"secret1", "hunter22", undefined} :
         LoginStart(username, password)

AnyLoginFinish == \E p \in pending : LoginFinish(p)

AnyRefresh == \E refreshToken \in RefreshInputs : Refresh(refreshToken)

AnyLogout ==
    \E tok \in {NoToken} \cup {held[u] : u \in UserIds},
       refreshToken \in RefreshInputs :
        Logout(tok, refreshToken) /\ UNCHANGED revoked

NextSession ==
    \/ GoodRegisterStart
    \/ SingleRegisterStart
    \/ AnyRegisterFinish
    \/ AnyLoginStart
    \/ AnyLoginFinish
    \/ AnyRefresh
    \/ AnyLogout
    \/ CleanExpiredTokens
    \/ Restart
    \/ Tick(MaxNow)

SpecSession == Init /\ [][NextSession]_vars

\* the protected endpoints, called with every kind of bearer token by two
\* fixed people
PersonRegisterStart ==
    \E username \in NameInputs(variant) :
        RegisterStart(username, username, PasswordOf(username), Undefined)

AuthLogout ==
    \E tok \in AccessInputs,
       refreshToken \in {NoToken} \cup {r.token : r \in refresh_tokens} :
        Logout(tok, refreshToken) /\ UNCHANGED revoked

AuthGetUser == \E tok \in AccessInputs : GetUser(tok)

AuthPutBalance ==
    \E tok \in AccessInputs, initialBalance \in BalanceInputs :
        PutBalance(tok, initialBalance)

AuthListTransactions == \E tok \in AccessInputs : ListTransactions(tok)

AuthCreateTransaction ==
    \E tok \in AccessInputs : CreateTransaction(tok, "income", Num(50))

AuthDeleteTransaction ==
    \E tok \in AccessInputs, id \in 1..MaxTx : DeleteTransaction(tok, id)

AuthBackupDownload == \E tok \in AccessInputs : BackupDownload(tok)

AuthBackupList == \E tok \in AccessInputs : BackupList(tok)

AuthRegisterStart ==
    /\ Cardinality(users) + Cardinality(pending) < MaxAuthUsers
    /\ PersonRegisterStart

NextAuth ==
    \/ AuthRegisterStart
    \/ AnyRegisterFinish
    \/ AuthLogout
    \/ AuthGetUser
    \/ AuthPutBalance
    \/ AuthListTransactions
    \/ AuthCreateTransaction
    \/ AuthDeleteTransaction
    \/ AuthBackupDownload
    \/ AuthBackupList
    \/ Tick(MaxAuthNow)

SpecAuth == Init /\ [][NextAuth]_vars

\* the transaction ledger of two fixed people, who send the tokens they
\* were given
LedgerTokens == {NoToken} \cup {held[u] : u \in UserIds}

LedgerListTransactions == \E tok \in LedgerTokens : ListTransactions(tok)

LedgerCreateTransaction ==
    \E tok \in LedgerTokens, type \in TypeInputs, amount \in AmountInputs :
        CreateTransaction(tok, type, amount)

LedgerDeleteTransaction ==
    \E tok \in LedgerTokens, id \in 1..MaxTx : DeleteTransaction(tok, id)

NextLedger ==
    \/ PersonRegisterStart
    \/ AnyRegisterFinish
    \/ LedgerListTransactions
    \/ LedgerCreateTransaction
    \/ LedgerDeleteTransaction
    \/ Tick(MaxLedgerNow)

SpecLedger == Init /\ [][NextLedger]_vars

\* referential integrity: registration, login, logout, the sweep, and the
\* ledger called with the tokens the clients were given and, against the
\* single-user servers run without JWT_SECRET, with tokens signed with the
\* default secret
IntegrityTokens ==
    {held[u] : u \in UserIds} \cup
    (IF variant = "multi" THEN {}
     ELSE {DefaultSecretToken(variant, id) : id \in UserIds})

IntegrityLoginStart ==
    /\ pending = {}
    /\ \E username \in NameInputs(variant) :
          LoginStart(username, PasswordOf(username))

IntegrityLogout ==
    \E tok \in IntegrityTokens, r \in refresh_tokens :
        Logout(tok, r.token) /\ UNCHANGED revoked

IntegrityCreateTransaction ==
    \E tok \in IntegrityTokens : CreateTransaction(tok, "income", Num(50))

IntegrityDeleteTransaction ==
    \E tok \in IntegrityTokens, id \in 1..MaxTx : DeleteTransaction(tok, id)

IntegrityRegisterStart ==
    /\ pending = {}
    /\ PersonRegisterStart

NextIntegrity ==
    \/ IntegrityRegisterStart
    \/ AnyRegisterFinish
    \/ IntegrityLoginStart
    \/ AnyLoginFinish
    \/ IntegrityLogout
    \/ CleanExpiredTokens
    \/ IntegrityCreateTransaction
    \/ IntegrityDeleteTransaction
    \/ Tick(MaxIntegrityNow)

SpecIntegrity == Init /\ [][NextIntegrity]_vars

\* the backup directory: the timer and the registrations of two people
BackupRegisterStart ==
    /\ Cardinality(users) + Cardinality(pending) < MaxBackupUsers
    /\ PersonRegisterStart

NextBackup ==
    \/ BackupRegisterStart
    \/ AnyRegisterFinish
    \/ BackupTimer
    \/ Tick(MaxBackupNow)

\* only the multi-user server has a backup directory
InitBackup == Init /\ variant = "multi"

SpecBackup == InitBackup /\ [][NextBackup]_vars

\* maintenance on a file system that may fail: the backup timer, the sweep
\* of expired tokens and the registration of one person
NextMaintenance ==
    \/ BackupRegisterStart
    \/ AnyRegisterFinish
    \/ BackupTimer
    \/ CleanExpiredTokens
    \/ FsChange
    \/ Tick(MaxBackupNow)

SpecMaintenance == InitBackup /\ [][NextMaintenance]_vars

\* revocation: registration, login, refresh and logout on the multi-user
\* server, with the history of the refresh tokens that were logged out
RevokeRegisterStart ==
    /\ Cardinality(users) + Cardinality(pending) < MaxRevokeUsers
    /\ PersonRegisterStart

RevokeLoginStart ==
    /\ pending = {}
    /\ \E username \in NameInputs(variant) :
          LoginStart(username, PasswordOf(username))

RevokeTokens == {r.token : r \in refresh_tokens} \cup revoked

RevokeRefresh == \E refreshToken \in RevokeTokens : Refresh(refreshToken)

RevokeLogout ==
    \E tok \in {held[u] : u \in UserIds}, refreshToken \in RevokeTokens :
        /\ Logout(tok, refreshToken)
        /\ revoked' = IF resp'.status = 200
                      THEN revoked \cup {refreshToken}
                      ELSE revoked

NextRevoke ==
    \/ RevokeRegisterStart
    \/ AnyRegisterFinish
    \/ RevokeLoginStart
    \/ AnyLoginFinish
    \/ RevokeRefresh
    \/ RevokeLogout
    \/ Tick(MaxRevokeNow)

SpecRevoke == InitBackup /\ [][NextRevoke]_vars

\* persistence: the mutating requests and the sweep against the sql.js
\* servers, on a file system whose writes can fail
InitPersist == Init /\ variant \in {"sqljs", "multi"}

NextPersist ==
    \/ IntegrityRegisterStart
    \/ AnyRegisterFinish
    \/ IntegrityLoginStart
    \/ AnyLoginFinish
    \/ CleanExpiredTokens
    \/ IntegrityCreateTransaction
    \/ FsChange
    \/ Tick(MaxPersistNow)

SpecPersist == InitPersist /\ [][NextPersist]_vars

----------------------------------------------------------------------------
\* Properties

\* the minimum password length the specification states for each variant
StatedMinimum(v) == IF v = "multi" THEN MinPasswordMulti ELSE MinPasswordSqlite

ShortPassword(v, password) ==
    password = undefined \/ Len(password) < StatedMinimum(v)

\* C1: in every variant, a register request whose password is shorter than
\* the minimum (4 single-user, 6 multi-user) is answered 400, before or
\* after the handler's await, and adds no user row.  (First conjunct, read
\* contrapositively: a step that adds a row or answers anything but 400 is
\* not the start of such a request.)
C1_ShortPasswordRejected ==
    [][/\ (users' # users \/ resp'.status \notin {0, 400}) =>
             \A username \in NameInputs(variant),
                email \in NameInputs(variant),
                password \in PasswordInputs :
                ShortPassword(variant, password)
                => ~RegisterStart(username, email, password, Undefined)
       /\ \A p \in pending :
             (/\ p.op = "register"
              /\ ShortPassword(variant, p.password)
              /\ RegisterFinish(p))
             => (resp'.status = 400 /\ users' = users)]_vars

\* C3: in the multi-user variant a register request whose username or email
\* is that of a stored user is answered 400 and adds no row, whether the
\* clash is found by the handler's query or by the insert after the await;
\* no two user rows ever share a username or an email.  (First conjunct,
\* read contrapositively: a step that is not a bare 400 is not the start of
\* a request with a taken identity.)
C3_NoDuplicateIdentity ==
    [][variant = "multi" =>
        /\ (resp'.status # 400 \/ users' # users \/ pending' # pending) =>
              \A username \in NameInputs(variant),
                 email \in NameInputs(variant),
                 password \in PasswordInputs :
                 (\E u \in users : u.username = username \/ u.email = email)
                 => ~RegisterStart(username, email, password, Undefined)
        /\ \A p \in pending :
              (/\ p.op = "register"
               /\ \E u \in users :
                     u.username = p.username \/ u.email = p.email
               /\ RegisterFinish(p))
              => (resp'.status = 400 /\ users' = users)
        /\ \A u1, u2 \in users' :
              u1 # u2 => (u1.username # u2.username /\ u1.email # u2.email)
      ]_vars

\* C3 witness: a registration that passed the handler's query lost the race
\* and was refused by the insert
C3_Witness ==
    /\ variant = "multi"
    /\ resp.op = "register" /\ resp.status = 400
    /\ resp.error = "Erro ao criar conta"
    /\ users # {}

\* the accounts a login request names: by username or email in the
\* multi-user variant; the single-user variants take no name
Names_Account(v, u, username) ==
    v # "multi" \/ u.username = username \/ u.email = username

\* C2: a login request that carries the correct password of an existing
\* account is not refused before the await, and is answered 200 with an
\* access token that the auth middleware accepts and that carries the id of
\* that account.
C2_CorrectLoginSucceeds ==
    [][/\ (resp'.status # 0) =>
             \A username \in NameInputs(variant),
                password \in Passwords :
                (\E u \in users :
                    /\ Names_Account(variant, u, username)
                    /\ BcryptCompare(password, u.password))
                => ~LoginStart(username, password)
       /\ \A p \in pending, u \in users :
             (/\ p.op = "login"
              /\ Names_Account(variant, u, p.username)
              /\ BcryptCompare(p.password, u.password)
              /\ LoginFinish(p))
             => /\ resp'.status = 200
                /\ AuthOk(resp'.token, epoch', now')
                /\ resp'.token.userId = u.id]_vars

----------------------------------------------------------------------------
\* the endpoints registered with the auth middleware
ProtectedOps ==
    {"logout", "getUser", "putBalance", "listTransactions",
     "createTransaction", "deleteTransaction", "backupDownload",
     "backupList"}

\* no bearer token, a token not signed with the access-token secret of the
\* running process, or a token past its exp claim
BadToken(tok, ep, ms) ==
    \/ tok = NoToken
    \/ tok.key # AccessKey
    \/ tok.epoch # ep
    \/ (tok.exp # NoExp /\ tok.exp <= Sec(ms))

\* C4: a request to a protected endpoint with no bearer token, with a token
\* signed with another secret (a refresh token included) or with an expired
\* token is answered 401 and changes no table and no backup file.
C4_BadTokenDenied ==
    [][(resp'.op \in ProtectedOps /\ BadToken(resp'.bearer, epoch, now))
        => /\ resp'.status = 401
           /\ UNCHANGED <<users, transactions, txSeq, refresh_tokens,
                          backupState>>]_vars

\* C4 witness: a delete request carrying an access token of this server
\* that has expired was denied while a transaction was stored
C4_Witness ==
    /\ resp.op = "deleteTransaction" /\ resp.status = 401
    /\ resp.bearer.key = AccessKey /\ resp.bearer.epoch = epoch
    /\ resp.bearer.exp # NoExp /\ resp.bearer.exp <= Sec(now)
    /\ transactions # {}

\* is the sequence of ids s strictly decreasing (every element created
\* after the ones that follow it: ids are assigned in creation order)
NewestFirst(s) == \A i, j \in 1..Len(s) : i < j => s[i] > s[j]

\* C5: a created transaction is stored for its creator until its creator
\* deletes it; a list request with a valid token is answered 200 (an empty
\* list when the user has no transaction) with exactly the transactions of
\* the requesting user, each once, the most recently created first.
C5_ListOwnNewestFirst ==
    [][/\ (resp'.op = "createTransaction" /\ resp'.status = 201)
            => \E t \in transactions' \ transactions :
                  t.id = resp'.id /\ t.user_id = resp'.userId
       /\ \A t \in transactions \ transactions' :
             /\ resp'.op = "deleteTransaction"
             /\ resp'.userId = t.user_id /\ resp'.id = t.id
       /\ (resp'.op = "listTransactions"
           /\ ~BadToken(resp'.bearer, epoch, now))
            => /\ resp'.status = 200
               /\ Range(resp'.body) =
                     {t.id : t \in {r \in transactions :
                                       r.user_id = resp'.bearer.userId}}
               /\ Len(resp'.body) = Cardinality(Range(resp'.body))
               /\ NewestFirst(resp'.body)]_vars

\* C6: a delete request with a valid token is answered 200 with the same
\* body whatever the id names; it removes the row with that id if the
\* requesting user owns it and otherwise leaves the table as it was.
C6_DeleteOnlyOwn ==
    [][(resp'.op = "deleteTransaction"
        /\ ~BadToken(resp'.bearer, epoch, now))
        => /\ resp'.status = 200 /\ resp'.error = "" /\ resp'.body = <<>>
           /\ transactions' =
                 {t \in transactions :
                     ~(t.id = resp'.id /\ t.user_id = resp'.bearer.userId)}
           /\ (~\E t \in transactions :
                    t.id = resp'.id /\ t.user_id = resp'.bearer.userId)
                => transactions' = transactions
           /\ txSeq' = txSeq]_vars

\* C6 witness: a delete request that named a transaction of another user
\* was answered 200 and the transaction is still stored
C6_Witness ==
    /\ resp.op = "deleteTransaction" /\ resp.status = 200
    /\ \E t \in transactions : t.id = resp.id /\ t.user_id # resp.userId

\* the names written by the n most recent runs of createBackup
LastSnapshots(n) ==
    {snapshots[i] : i \in {k \in 1..Len(snapshots) : k > Len(snapshots) - n}}

\* C7: after more than 10 backup cycles the backup directory holds exactly
\* 10 files, those of the 10 most recent cycles; up to 10 cycles the file
\* of every cycle is there.
C7_KeepsTenMostRecent ==
    IF Len(snapshots) > KeepBackups
    THEN /\ Cardinality(backups) = KeepBackups
         /\ backups = LastSnapshots(KeepBackups)
    ELSE backups = Range(snapshots)

\* the conditions under which the specification lets a refresh token be
\* honoured: a row with exactly that token, whose stored expiry is not in
\* the past, and a token signed with the refresh secret of the running
\* process whose exp claim is not reached
Honoured(rt) ==
    /\ \E r \in refresh_tokens : r.token = rt /\ r.expires_at >= now
    /\ rt.key = RefreshKey /\ rt.epoch = epoch
    /\ (rt.exp = NoExp \/ Sec(now) < rt.exp)

\* C8, as the code has it: a refresh request is answered 200 with a new
\* access token of the token's user, which the auth middleware accepts, if
\* and only if the refresh token is honoured; otherwise it fails, with 400
\* when no refresh token is supplied and with 401 in every other case.  In
\* both outcomes the refresh_tokens table is unchanged.
C8_RefreshOutcome ==
    [][resp'.op = "refresh" =>
        /\ refresh_tokens' = refresh_tokens
        /\ \A rt \in RefreshInputs :
              Refresh(rt) =>
                 IF Honoured(rt)
                 THEN /\ resp'.status = 200
                      /\ AuthOk(resp'.token, epoch, now)
                      /\ resp'.token.userId = rt.userId
                 ELSE /\ resp'.status = IF rt = NoToken THEN 400 ELSE 401
                      /\ resp'.token = NoToken]_vars

\* C8, as stated: ... otherwise it fails with 401.
C8_RefreshOtherwise401 ==
    [][resp'.op = "refresh" =>
        /\ refresh_tokens' = refresh_tokens
        /\ \A rt \in RefreshInputs :
              Refresh(rt) =>
                 IF Honoured(rt)
                 THEN /\ resp'.status = 200
                      /\ AuthOk(resp'.token, epoch, now)
                      /\ resp'.token.userId = rt.userId
                 ELSE /\ resp'.status = 401
                      /\ resp'.token = NoToken]_vars

\* C8 witness: a refresh request was answered 200 with an access token the
\* middleware accepts, and the refresh token of that user is still stored
\* and still honoured
C8_Witness ==
    /\ resp.op = "refresh" /\ resp.status = 200
    /\ AuthOk(resp.token, epoch, now)
    /\ \E r \in refresh_tokens :
          r.user_id = resp.userId /\ Honoured(r.token)

\* C9: a logout request with a valid bearer token is answered 200 whatever
\* refresh token it carries (a stored one, one already deleted, one that
\* never existed, none); it removes the rows whose token is the given
\* string and no other row, and a second logout with that token would
\* leave the table as the first left it.
C9_LogoutIdempotent ==
    [][(resp'.op = "logout" /\ ~BadToken(resp'.bearer, epoch, now)) =>
        \A rt \in RefreshInputs :
           Logout(resp'.bearer, rt) =>
              /\ resp'.status = 200
              /\ refresh_tokens' = {r \in refresh_tokens : r.token # rt}
              /\ DeleteToken(refresh_tokens', rt) = refresh_tokens'
              /\ UNCHANGED <<users, transactions, txSeq>>]_vars

\* C9 witness: a logout was answered 200 and no refresh token is stored
\* although a user has registered and no stored expiry has passed: logout
\* removed the rows, and this logout may be a repeated one
C9_Witness ==
    /\ resp.op = "logout" /\ resp.status = 200
    /\ users # {}
    /\ refresh_tokens = {}
    /\ now <= ExpiresAt(0)

\* C10: a create request with a valid token, a type of income or expense
\* and a numeric amount (zero included) is answered 201 with the id of the
\* one row it adds, owned by the requesting user; with any other type or
\* with no amount it is answered 400 and adds no row.
C10_CreateValidation ==
    [][(resp'.op = "createTransaction"
        /\ ~BadToken(resp'.bearer, epoch, now)) =>
        \A type \in TypeInputs, amount \in AmountInputs :
           CreateTransaction(resp'.bearer, type, amount) =>
              IF type \in TxTypes /\ amount.t = "number"
              THEN /\ resp'.status = 201
                   /\ \E t \in transactions' :
                         /\ transactions' = transactions \cup {t}
                         /\ t \notin transactions
                         /\ t.id = resp'.id
                         /\ t.user_id = resp'.bearer.userId
                         /\ t.type = type /\ t.amount = amount.v
              ELSE /\ resp'.status = 400
                   /\ transactions' = transactions]_vars

\* a login fails without a trace: no access token, no refresh-token row,
\* no change of any user row (last_login included)
LoginLeavesNoTrace ==
    /\ resp'.token = NoToken /\ resp'.refreshToken = NoToken
    /\ refresh_tokens' = refresh_tokens
    /\ users' = users
    /\ held' = held

\* C11 with the multi-user status for "no account" left open: a login that
\* supplies an identity and a password is answered 404 (multiNotFound by
\* the multi-user server) when no account matches, and 401 when the
\* account read does not have that password; in
\* both cases it leaves no trace.  (First conjunct, read contrapositively:
\* a step that is not such an answer is not the start of a login that
\* matches no account.)
LoginFailures(multiNotFound) ==
    /\ (\/ resp'.status # (IF variant = "multi" THEN multiNotFound ELSE 404)
        \/ ~LoginLeavesNoTrace) =>
          \A username \in NameInputs(variant), password \in Passwords :
             (/\ variant = "multi" => username # ""
              /\ LoginCandidates(variant, users, username) = {})
             => ~LoginStart(username, password)
    /\ \A p \in pending :
          (/\ p.op = "login"
           /\ p.user.password # BcryptHash(p.password)
           /\ LoginFinish(p))
          => (resp'.status = 401 /\ LoginLeavesNoTrace)

\* C11, as the code has it: a login that matches no account is answered 404
\* by the single-user servers and 401 by the multi-user server; a login
\* whose password does not match the stored hash is answered 401; neither
\* issues a token, inserts a refresh-token row or updates last_login.
C11_LoginFailures == [][LoginFailures(401)]_vars

\* C11, as stated: a login that matches no account is answered 404.
C11_LoginNotFound404 == [][LoginFailures(404)]_vars

\* C11 witness: the multi-user server refused a login (unknown name or
\* wrong password) with 401 while a user who logged in earlier still has
\* the time of that login as last_login
C11_Witness ==
    /\ variant = "multi"
    /\ resp.op = "login" /\ resp.status = 401
    /\ \E u \in users : u.last_login # NoLogin /\ u.last_login < Sec(now)

\* C12: every transaction row and every refresh-token row references an
\* existing user row, and no step removes a user row.
C12_ReferencesExist ==
    [][/\ \A t \in transactions' : \E u \in users' : u.id = t.user_id
       /\ \A r \in refresh_tokens' : \E u \in users' : u.id = r.user_id
       /\ {u.id : u \in users} \subseteq {u.id : u \in users'}]_vars

\* C13: on a failing file system a due backup run still completes, and so
\* does the sweep on any file system (the timers keep running); a backup
\* run that fails
\* touches no table and sends no response, and a later run on a working
\* file system writes its file; a registration whose backup fails (copy or
\* prune) is answered 201 with its user row and refresh-token row stored in
\* memory and on disk; a sweep that succeeds leaves exactly the refresh
\* tokens whose stored expiry is not before the current time.
C13_MaintenanceFailuresSwallowed ==
    [][/\ (variant = "multi" /\ fs # "ok" /\ now > timerRanAt
           /\ Len(snapshots) < MaxCycles) => ENABLED BackupTimer
       /\ variant = "multi" => ENABLED CleanExpiredTokens
       /\ BackupTimer =>
             /\ timerRanAt' = now /\ resp' = NoResp
             /\ Tables' = Tables /\ disk' = disk /\ pending' = pending
             /\ fs = "ok" => now \in backups'
       /\ \A p \in pending :
             (/\ p.op = "register"
              /\ fs \in {"noCopy", "noUnlink"}
              /\ ~\E u \in users :
                    u.username = p.username \/ u.email = p.email
              /\ RegisterFinish(p))
             => /\ resp'.status = 201
                /\ \E u \in users' \ users, r \in refresh_tokens' :
                      /\ u.username = p.username /\ u.id = resp'.userId
                      /\ r.user_id = u.id /\ r.token = resp'.refreshToken
                      /\ u \in disk'.users /\ r \in disk'.refresh_tokens
       /\ CleanExpiredTokens =>
             /\ resp' = NoResp /\ pending' = pending
             /\ users' = users /\ transactions' = transactions
             /\ fs # "noWrite" =>
                   /\ refresh_tokens' =
                         {r \in refresh_tokens : r.expires_at >= now}
                   /\ disk'.refresh_tokens = refresh_tokens']_vars

\* C13 witness: a registration was answered 201 although the copy of its
\* backup failed: there is no backup file of this millisecond
C13_Witness ==
    /\ resp.op = "register" /\ resp.status = 201
    /\ fs = "noCopy"
    /\ now \notin backups
    /\ \E r \in refresh_tokens : r.user_id = resp.userId

\* C14: under any interleaving of suspended registrations and ledger
\* requests, a register answered 201 returns (as userId and inside its
\* access token) the id of the one user row that this request inserted, a
\* row with the request's username, email and password hash; a
\* createTransaction answered 201 returns the id of the one transaction row
\* that this request inserted, a row owned by the bearer.
C14_ReturnedIdIsOwnRow ==
    [][/\ (resp'.op = "register" /\ resp'.status = 201) =>
             \E p \in pending :
                /\ RegisterFinish(p)
                /\ \E u \in users' :
                      /\ users' \ users = {u}
                      /\ u.id = resp'.userId
                      /\ u.id = resp'.token.userId
                      /\ u.username = p.username /\ u.email = p.email
                      /\ u.password = BcryptHash(p.password)
       /\ (resp'.op = "createTransaction" /\ resp'.status = 201) =>
             \E t \in transactions' :
                /\ transactions' \ transactions = {t}
                /\ t.id = resp'.id
                /\ t.user_id = resp'.bearer.userId]_vars

\* C14 witness: a registration was answered 201 with the id of its own row
\* while another registration is suspended on its hash and other rows exist
C14_Witness ==
    /\ resp.op = "register" /\ resp.status = 201
    /\ pending # {}
    /\ \E u \in users : u.id = resp.userId /\ u.id > 1
    /\ transactions # {}

\* C15: once a logout has succeeded for a refresh-token string, every
\* later refresh with that string is answered 401, whatever registrations
\* and logins happened in between.
C15_LoggedOutTokenRefused ==
    [][\A refreshToken \in revoked :
          Refresh(refreshToken) => resp'.status = 401]_vars

\* C16: in the sql.js variants the database file holds the tables of the
\* in-memory database whenever no handler is in the middle of a synchronous
\* run, that is in every state: no mutation exists only in memory.
C16_DiskEqualsMemory ==
    variant \in {"sqljs", "multi"} => disk = Tables

====
